---- MODULE Spec2Model ----
(* A model of gofrr: a client of the FRR VTY sockets.                      *)
(*   Connection : one unix-socket transport, the command/response framing, *)
(*                ApplyConfig and ShowRunningConfig.                       *)
(*   Sockets    : the four Connections (bgp, bfd, mgmt, zebra), connect    *)
(*                and close of all, the per-daemon helpers and the dump.   *)
(* Bytes are naturals 0..255; a command or a config is a sequence of       *)
(* one-character strings; a transport is a positive number, 0 is nil.      *)
EXTENDS Integers, Sequences, FiniteSets, TLC

\* ---------------------------------------------------------------- bounds

\* Longest plaintext payload a daemon sends in one response.
MaxPayload == 3
\* Transports one run may dial.
MaxDials == 2
\* The clock runs 0..MaxTime.
MaxTime == 1
\* Transports each connection of a Sockets may dial through Sockets.Connect.
MaxConnects == 2

\* Plaintext bytes the daemons send: a zero byte and a letter.
PayloadBytes == {0, 65}
\* Status bytes the daemons send: the three accepted ones and two rejected.
StatusBytes == {0, 1, 2, 10, 16}

\* ------------------------------------------------------------- constants

terminationMarker == <<0, 0, 0>>
techDataTotalLen == 4
bufSize == 4096
\* DefaultTimeout, in seconds.
DefaultTimeout == 1

\* The status codes, as in frr lib/command.h. A StatusCode is a byte.
Success == 0
Warning == 1
ErrNoMatch == 2
ErrAmbiguous == 3
ErrIncomplete == 4
ErrExeedArgcMax == 5
ErrNothingTodo == 6
CompleteFullMatch == 7
CompleteMatch == 8
CompleteListMatch == 9
SuccessDaemon == 10
ErrNoFile == 11
Suspend == 12
WarningConfigFailed == 13
NotMyInstance == 14
NoLevelUp == 15
ErrNoDaemon == 16
MaxStatusCode == 255

Nil == 0
NoErr == "nil"
ErrConnNotEstab == "ErrConnNotEstab"
ErrNotAcceptableStatusCode == "ErrNotAcceptableStatusCode"
ErrSetDeadline == "set connection deadline"
ErrWrite == "write"
ErrDial == "dial"
ErrClose == "socket connection close"
\* What conn.Read fails with once the daemon sends no more: EOF or a timeout.
ErrRead == "read"
ErrShowRunningConfig == "show running config"
ErrAtomicWrite == "atomic write"

Conns == <<"bgp", "bfd", "mgmt", "zebra">>
ConnSet == {Conns[i] : i \in 1..Len(Conns)}

\* ------------------------------------------------------------- the state

VARIABLES
  conn,     \* conn[c]: Connection.conn: which of c's transports it holds, or Nil
  rxq,      \* rxq[c]: bytes the daemon has sent on c's transport, not yet read
  openT,    \* the transports that are open: <<c, k>> is the k-th that c dialed
  dials,    \* dials[c]: how many transports c has dialed so far
  fs,       \* fs[path]: the content of the file at path, or Absent
  now,      \* the clock
  pc,       \* where the caller is: "idle", in an operation, or "returned"
  loc,      \* the local variables of the operation in progress
  response, \* the buffer of the readResponse in progress
  call,     \* the last operation called, with its inputs
  ret,      \* what it returned
  issued,   \* the Executes it made, in order: connection, command, error
  io        \* the transport and file operations it performed, in order

net == <<conn, rxq, openT, dials>>
vars == <<conn, rxq, openT, dials, fs, now, pc, loc, response, call, ret, issued, io>>

\* --------------------------------------------------------------- helpers

RECURSIVE Flatten(_)
Flatten(ss) == IF ss = <<>> THEN <<>> ELSE Head(ss) \o Flatten(Tail(ss))

SeqsUpTo(S, n) == UNION {[1..k -> S] : k \in 0..n}

Min(a, b) == IF a <= b THEN a ELSE b

\* bytes.Index: the 0-based place of the first sep in s, or -1.
bytesIndex(s, sep) ==
  LET hits == {i \in 0..(Len(s) - Len(sep)) : SubSeq(s, i + 1, i + Len(sep)) = sep}
  IN IF hits = {} THEN -1 ELSE CHOOSE i \in hits : \A j \in hits : i <= j

\* The response as the daemon puts it on the wire.
Encode(P, S) == P \o terminationMarker \o <<S>>

\* The chunks successive reads deliver of stream, cut after the places in cuts.
RECURSIVE ChunksFrom(_, _, _)
ChunksFrom(stream, cuts, from) ==
  IF from > Len(stream) THEN <<>>
  ELSE LET ends == {e \in from..Len(stream) : e \in cuts \/ e = Len(stream)}
           e == CHOOSE x \in ends : \A y \in ends : x <= y
       IN <<SubSeq(stream, from, e)>> \o ChunksFrom(stream, cuts, e + 1)

Chunks(stream, cuts) == ChunksFrom(stream, cuts, 1)

\* Every way to cut stream into chunks a read can deliver.
Cuts(stream) ==
  {cu \in SUBSET (1..(Len(stream) - 1)) :
     \A i \in 1..Len(Chunks(stream, cu)) : Len(Chunks(stream, cu)[i]) <= bufSize}

\* ------------------------------------------------- Connection: the framing

\* A socketResponse.
Response(plainText, statusCode, err) ==
  [plainText |-> plainText, statusCode |-> statusCode, err |-> err]

\* No socketResponse: readResponse was not reached.
NoResponse == Response(<<>>, 0, "none")

\* readIter that ends the loop as soon as the buffer holds a marker, without
\* waiting for the status byte.
readIter_noStatusWait(buf, chunk) ==
  [response |-> buf \o chunk,
   done |-> bytesIndex(buf \o chunk, terminationMarker) >= 0]

\* readIter that ends the loop when the buffer ends in a marker and one
\* byte, wherever its first marker is.
readIter_trailerOnly(buf, chunk) ==
  [response |-> buf \o chunk,
   done |-> /\ Len(buf \o chunk) >= techDataTotalLen
            /\ SubSeq(buf \o chunk, Len(buf \o chunk) - 3, Len(buf \o chunk) - 1)
                 = terminationMarker]

\* readIter with the marker looked for in the chunk just read, not in the
\* whole buffer.
readIter_scanChunk(buf, chunk) ==
  LET r == buf \o chunk
      endIdx == bytesIndex(chunk, terminationMarker)
  IN [response |-> r,
      done |-> endIdx >= 0 /\ Len(chunk) - endIdx = techDataTotalLen]

\* One turn of the loop of readResponse after a read that delivered chunk:
\* the buffer grows, and the loop ends when the first marker of the buffer
\* starts techDataTotalLen bytes before its end.
readIter(buf, chunk) ==
  LET r == buf \o chunk
      endIdx == bytesIndex(r, terminationMarker)
  IN [response |-> r,
      done |-> endIdx >= 0 /\ Len(r) - endIdx = techDataTotalLen]

\* What readResponse returns once the loop has ended with buffer r.
readDone(r) ==
  Response(SubSeq(r, 1, Len(r) - techDataTotalLen), r[Len(r)], NoErr)

\* readResponse that drops the buffer when a read fails.
readFailed_noBytes(r, err) == Response(<<>>, 0, err)

\* What readResponse returns when a read fails with buffer r.
readFailed(r, err) == Response(r, 0, err)

\* readResponse as a whole: chunks[k] is what the k-th read delivers, the
\* read after the last chunk fails with endErr. reads: the reads made.
RECURSIVE readLoop(_, _, _, _)
readLoop(buf, chunks, k, endErr) ==
  IF k > Len(chunks)
  THEN [sr |-> readFailed(buf, endErr), reads |-> k]
  ELSE LET it == readIter(buf, chunks[k])
       IN IF it.done THEN [sr |-> readDone(it.response), reads |-> k]
          ELSE readLoop(it.response, chunks, k + 1, endErr)

readResponse(chunks, endErr) == readLoop(<<>>, chunks, 1, endErr)

\* ------------------------------------------------ Connection: the context

\* A context.Context: its deadline, if it has one, and whether cancel was called.
Contexts ==
  {[hasDeadline |-> FALSE, deadline |-> 0, cancelled |-> x] : x \in BOOLEAN}
  \cup {[hasDeadline |-> TRUE, deadline |-> d, cancelled |-> x] :
          d \in 0..(MaxTime + 1), x \in BOOLEAN}

Background == [hasDeadline |-> FALSE, deadline |-> 0, cancelled |-> FALSE]

\* ctx.Err() /= nil at time t: cancelled, or its deadline has passed.
ctxDone(ctx, t) == ctx.cancelled \/ (ctx.hasDeadline /\ ctx.deadline <= t)

\* A transport operation, as the log io records it. n: the bytes written;
\* for a dial, 1 when it succeeded and 0 when it failed.
IoOp(c, op, cmd, deadline, n) ==
  [c |-> c, op |-> op, cmd |-> cmd, deadline |-> deadline, n |-> n]

\* setDeadline that adds the default timeout to the context's deadline too.
setDeadline_addTimeout(ctx, t) ==
  IF ctx.hasDeadline THEN ctx.deadline + DefaultTimeout ELSE t + DefaultTimeout

\* setDeadline that never looks at the context's deadline.
setDeadline_ignoreCtx(ctx, t) == t + DefaultTimeout

\* Connection.setDeadline: the deadline handed to conn.SetDeadline at time t.
setDeadline(ctx, t) ==
  IF ctx.hasDeadline THEN ctx.deadline ELSE t + DefaultTimeout

\* The accepted codes without SuccessDaemon.
acceptable_noDaemon(sc) == sc = Success \/ sc = Warning

\* The status codes Execute accepts.
acceptable(sc) == sc = Success \/ sc = Warning \/ sc = SuccessDaemon

\* What the transport and the daemon do during one Execute:
\*   sdErr  SetDeadline fails;  wrErr  Write fails, after wrN bytes;
\*   P, S   the response the daemon sends once it has the command;
\*   lost   how many bytes at the end of the response never arrive (the
\*          daemon or the transport dies before);
\*   cuts   where the reads cut the stream.
NoReply == [sdErr |-> FALSE, wrErr |-> FALSE, wrN |-> 0, P |-> <<>>, S |-> 0,
            lost |-> 0, cuts |-> {}]

\* The bytes of the daemon's response that arrive.
Arriving(env) == SubSeq(Encode(env.P, env.S), 1, Len(Encode(env.P, env.S)) - env.lost)

\* What Execute returns (resp, err), with the socketResponse sr of
\* readResponse, the transport operations io, and the bytes left unread, rxq.
Result(resp, err, sr, ops, q) ==
  [resp |-> resp, err |-> err, sr |-> sr, io |-> ops, rxq |-> q]

\* Connection.Execute past its check of conn, on connection c at time t, q
\* the unread bytes of its transport.
executeConnected(c, q, ctx, cmd, t, env) ==
  LET dl == setDeadline(ctx, t)
      io1 == <<IoOp(c, "SetDeadline", <<>>, dl, 0)>>
  IN
  IF env.sdErr
  THEN Result(<<>>, ErrSetDeadline, NoResponse, io1, q)
  ELSE
    \* conn.Write fails at once, writing nothing, when the deadline has passed.
    LET expired == dl <= t
        wrFails == expired \/ env.wrErr
        wrN     == IF expired THEN 0
                   ELSE IF env.wrErr THEN env.wrN ELSE Len(cmd) + 1
        io2     == io1 \o <<IoOp(c, "Write", cmd, dl, wrN)>>
    IN
    IF wrFails
    THEN Result(<<>>, ErrWrite, NoResponse, io2, q)
    ELSE
      LET stream == q \o Arriving(env)
          chunks == Chunks(stream, env.cuts)
          rr     == readResponse(chunks, ErrRead)
          sr     == rr.sr
          io3    == io2 \o [i \in 1..rr.reads |-> IoOp(c, "Read", <<>>, dl, 0)]
          rest   == IF sr.err /= NoErr THEN <<>>
                    ELSE Flatten(SubSeq(chunks, rr.reads + 1, Len(chunks)))
      IN
      IF sr.err /= NoErr
      THEN Result(sr.plainText, sr.err, sr, io3, rest)
      ELSE IF ~acceptable(sr.statusCode)
      THEN Result(sr.plainText, ErrNotAcceptableStatusCode, sr, io3, rest)
      ELSE Result(sr.plainText, NoErr, sr, io3, rest)

\* Execute that sets the deadline before it looks at conn.
Execute_lateCheck(c, cn, q, ctx, cmd, t, env) ==
  IF cn = Nil
  THEN Result(<<>>, ErrConnNotEstab, NoResponse,
              <<IoOp(c, "SetDeadline", <<>>, setDeadline(ctx, t), 0)>>, q)
  ELSE executeConnected(c, q, ctx, cmd, t, env)

\* Connection.Execute on connection c, cn its transport.
Execute(c, cn, q, ctx, cmd, t, env) ==
  IF cn = Nil
  THEN Result(<<>>, ErrConnNotEstab, NoResponse, <<>>, q)
  ELSE executeConnected(c, q, ctx, cmd, t, env)

Payloads == SeqsUpTo(PayloadBytes, MaxPayload)

\* The plaintexts the daemon answers a command with: none, a letter, and a
\* letter with a zero byte after it.
ReplyPayloads == {<<>>, <<65>>, <<65, 0>>}

\* The two extreme deliveries of a stream: all at once, and byte by byte.
Deliveries(stream) == {{}, 1..(Len(stream) - 1)}

\* The behaviours of transport and daemon one Execute may meet, on a
\* transport with q unread.
Replies(cmd, q) ==
  {[NoReply EXCEPT !.sdErr = TRUE]}
  \cup {[NoReply EXCEPT !.wrErr = TRUE, !.wrN = n] : n \in {0, Len(cmd)}}
  \cup UNION {UNION {
         {[NoReply EXCEPT !.P = P, !.S = S, !.cuts = cu] :
             cu \in Deliveries(q \o Encode(P, S))}
         : S \in StatusBytes} : P \in {p \in ReplyPayloads : Len(q) + Len(p) <= MaxPayload}}
  \cup UNION {
         {[NoReply EXCEPT !.P = <<65>>, !.S = 2, !.lost = n, !.cuts = cu] :
             cu \in Deliveries(q \o SubSeq(Encode(<<65>>, 2), 1, 5 - n))}
         : n \in {1, 4}}

enable == <<"e", "n", "a", "b", "l", "e">>
configure == <<"c", "o", "n", "f", "i", "g", "u", "r", "e">>
exit == <<"e", "x", "i", "t">>
disable == <<"d", "i", "s", "a", "b", "l", "e">>
doWriteTerminal == <<"d", "o", " ", "w", "r", "i", "t", "e", " ", "t", "e", "r", "m", "i", "n", "a", "l">>

\* A file that does not exist.
Absent == <<-1>>
\* The file a dump is written to.
dstFile == <<"frr.conf">>

\* atomicWrite with the data written straight to the destination.
tmpPath_same(path) == path

\* The temporary file of atomicWrite.
tmpPath(path) == path \o <<".tmp">>

NoCall == [op |-> "none", via |-> "", c |-> "bgp", ctx |-> Background,
           cmd |-> <<>>, config |-> <<>>, env |-> NoReply, conn0 |-> Nil,
           rxq0 |-> <<>>, dst0 |-> Absent, t |-> 0]
NoRet == [resp |-> <<>>, err |-> NoErr, errs |-> <<>>, sr |-> NoResponse]
NoLoc == [phase |-> "", i |-> 0, commands |-> <<>>, errs |-> <<>>,
          resps |-> <<>>, resultConfig |-> <<>>]

\* ---------------------------------------------- Connection: the operations

\* The dial of Connection.Connect: on success the new transport replaces conn.
Dial(c, ok) ==
  IF ok
  THEN /\ dials' = [dials EXCEPT ![c] = @ + 1]
       /\ conn' = [conn EXCEPT ![c] = dials[c] + 1]
       /\ rxq' = [rxq EXCEPT ![c] = <<>>]
       /\ openT' = openT \cup {<<c, dials[c] + 1>>}
  ELSE UNCHANGED net

\* A dial can succeed when the context is not done; MaxDials bounds the run.
CanDial(c, ctx) == ~ctxDone(ctx, now) /\ dials[c] < MaxDials

\* Connection.Close on the transport: it is closed if there is one, and conn
\* is cleared whether or not the close failed.
CloseConn(c) ==
  IF conn[c] = Nil
  THEN UNCHANGED net
  ELSE /\ conn' = [conn EXCEPT ![c] = Nil]
       /\ rxq' = [rxq EXCEPT ![c] = <<>>]
       /\ openT' = openT \ {<<c, conn[c]>>}
       /\ UNCHANGED dials

\* Connection.Close that calls the transport's Close without looking at conn.
closeOps_noNilCheck(c) == <<IoOp(c, "Close", <<>>, 0, 0)>>

\* The transport operations of Connection.Close.
closeOps(c) == IF conn[c] = Nil THEN <<>> ELSE <<IoOp(c, "Close", <<>>, 0, 0)>>

\* Connection.Connect.
Connect(c) ==
  \E ctx \in Contexts, ok \in BOOLEAN :
    /\ pc = "idle"
    /\ ok => CanDial(c, ctx)
    /\ pc' = "returned"
    /\ call' = [NoCall EXCEPT !.op = "Connect", !.c = c, !.ctx = ctx,
                              !.conn0 = conn[c], !.rxq0 = rxq[c], !.t = now]
    /\ io' = <<IoOp(c, "Dial", <<>>, 0, IF ok THEN 1 ELSE 0)>>
    /\ Dial(c, ok)
    /\ ret' = [NoRet EXCEPT !.err = IF ok THEN NoErr ELSE ErrDial]
    /\ UNCHANGED <<fs, now, loc, response, issued>>

\* Connection.Close.
Close(c) ==
  \E closeErr \in BOOLEAN :
    /\ pc = "idle"
    /\ closeErr => conn[c] /= Nil
    /\ pc' = "returned"
    /\ call' = [NoCall EXCEPT !.op = "Close", !.c = c,
                              !.conn0 = conn[c], !.rxq0 = rxq[c], !.t = now]
    /\ io' = closeOps(c)
    /\ ret' = [NoRet EXCEPT !.err = IF closeErr THEN ErrClose ELSE NoErr]
    /\ CloseConn(c)
    /\ UNCHANGED <<fs, now, loc, response, issued>>

\* Connection.Execute, the whole round trip.
ExecuteCall(c) ==
  \E ctx \in Contexts :
    \E env \in Replies(enable, rxq[c]) :
      LET r == Execute(c, conn[c], rxq[c], ctx, enable, now, env) IN
      /\ pc = "idle"
      /\ pc' = "returned"
      /\ call' = [NoCall EXCEPT !.op = "Execute", !.c = c, !.ctx = ctx,
                                !.cmd = enable, !.env = env, !.conn0 = conn[c],
                                !.rxq0 = rxq[c], !.t = now]
      /\ ret' = [NoRet EXCEPT !.resp = r.resp, !.err = r.err, !.sr = r.sr]
      /\ io' = r.io
      /\ issued' = <<[c |-> c, cmd |-> enable, err |-> r.err]>>
      /\ rxq' = [rxq EXCEPT ![c] = r.rxq]
      /\ UNCHANGED <<conn, openT, dials, fs, now, loc, response>>

\* The caller takes the result and goes on.
Return ==
  /\ pc = "returned"
  /\ pc' = "idle"
  /\ call' = NoCall
  /\ ret' = NoRet
  /\ loc' = NoLoc
  /\ issued' = <<>>
  /\ io' = <<>>
  /\ UNCHANGED <<net, fs, now, response>>

\* Time passes.
Tick ==
  /\ pc = "idle"
  /\ now < MaxTime
  /\ now' = now + 1
  /\ UNCHANGED <<net, fs, pc, loc, response, call, ret, issued, io>>

Init ==
  /\ conn = [c \in ConnSet |-> Nil]
  /\ rxq = [c \in ConnSet |-> <<>>]
  /\ openT = {}
  /\ dials = [c \in ConnSet |-> 0]
  /\ fs = [p \in {dstFile, tmpPath(dstFile)} |-> Absent]
  /\ now = 0
  /\ pc = "idle"
  /\ loc = NoLoc
  /\ response = <<>>
  /\ call = NoCall
  /\ ret = NoRet
  /\ issued = <<>>
  /\ io = <<>>

\* One Connection (the bgp one) driven by a caller.
Next ==
  \/ Connect("bgp")
  \/ Close("bgp")
  \/ ExecuteCall("bgp")
  \/ Return
  \/ Tick

Spec == Init /\ [][Next]_vars

\* ------------------------------------------- readResponse, read by read

\* A connected Connection whose daemon has put one response on the wire.
InitRead ==
  \E P \in Payloads, S \in StatusBytes :
    /\ conn = [c \in ConnSet |-> IF c = "bgp" THEN 1 ELSE Nil]
    /\ rxq = [c \in ConnSet |-> IF c = "bgp" THEN Encode(P, S) ELSE <<>>]
    /\ openT = {<<"bgp", 1>>}
    /\ dials = [c \in ConnSet |-> IF c = "bgp" THEN 1 ELSE 0]
    /\ fs = [p \in {dstFile, tmpPath(dstFile)} |-> Absent]
    /\ now = 0
    /\ pc = "reading"
    /\ loc = NoLoc
    /\ response = <<>>
    /\ call = [NoCall EXCEPT !.op = "readResponse", !.env.P = P, !.env.S = S,
                             !.conn0 = 1]
    /\ ret = NoRet
    /\ issued = <<>>
    /\ io = <<>>

\* One read of the loop of readResponse that delivers the next n bytes.
ReadChunk(c) ==
  \E n \in 1..Min(Len(rxq[c]), bufSize) :
    LET it == readIter(response, SubSeq(rxq[c], 1, n)) IN
    /\ pc = "reading"
    /\ rxq' = [rxq EXCEPT ![c] = SubSeq(rxq[c], n + 1, Len(rxq[c]))]
    /\ response' = it.response
    /\ io' = io \o <<IoOp(c, "Read", <<>>, 0, n)>>
    /\ pc' = IF it.done THEN "done" ELSE "reading"
    /\ ret' = IF it.done THEN [ret EXCEPT !.sr = readDone(it.response)] ELSE ret
    /\ UNCHANGED <<conn, openT, dials, fs, now, loc, call, issued>>

\* The read after the daemon's last byte fails, and ends readResponse.
ReadFail(c) ==
  /\ pc = "reading"
  /\ rxq[c] = <<>>
  /\ io' = io \o <<IoOp(c, "Read", <<>>, 0, 0)>>
  /\ pc' = "done"
  /\ ret' = [ret EXCEPT !.sr = readFailed(response, ErrRead)]
  /\ UNCHANGED <<net, fs, now, loc, response, call, issued>>

NextRead ==
  \/ ReadChunk("bgp")
  \/ ReadFail("bgp")

SpecRead == InitRead /\ [][NextRead]_vars

\* ------------------------------------------------ Connection: ApplyConfig

\* Longest config blob, in characters.
MaxConfig == 4
\* The characters of a config blob: newline, space and a letter.
ConfigChars == {"\n", " ", "a"}
Configs == SeqsUpTo(ConfigChars, MaxConfig)

\* bytes.Split(s, sep): the pieces of s between the seps; at least one piece.
RECURSIVE bytesSplit(_, _)
bytesSplit(s, sep) ==
  LET idx == bytesIndex(s, sep) IN
  IF idx < 0 THEN <<s>>
  ELSE <<SubSeq(s, 1, idx)>> \o bytesSplit(SubSeq(s, idx + Len(sep) + 1, Len(s)), sep)

\* The white space bytes.TrimSpace removes.
isSpace(ch) == ch \in {" ", "\t", "\n", "\r", "\f"}

RECURSIVE trimLeft(_)
trimLeft(s) == IF s /= <<>> /\ isSpace(Head(s)) THEN trimLeft(Tail(s)) ELSE s

RECURSIVE trimRight(_)
trimRight(s) ==
  IF s /= <<>> /\ isSpace(s[Len(s)]) THEN trimRight(SubSeq(s, 1, Len(s) - 1)) ELSE s

\* TrimSpace that trims the front only.
TrimSpace_frontOnly(s) == trimLeft(s)

\* bytes.TrimSpace.
TrimSpace(s) == trimRight(trimLeft(s))

\* The commands ApplyConfig runs before and after the lines of the config.
enterCmds == <<enable, configure>>
exitCmds == <<exit, disable>>

\* The contexts and the behaviours of transport and daemon the multi-command
\* operations are run with.
StepContexts == {Background, [hasDeadline |-> TRUE, deadline |-> 0, cancelled |-> FALSE]}
StepReplies ==
  {[NoReply EXCEPT !.sdErr = TRUE], [NoReply EXCEPT !.wrErr = TRUE]}
  \cup {[NoReply EXCEPT !.P = <<65>>, !.S = S] : S \in {0, 2}}

\* ApplyConfig with a failing config line passed over.
applyNext_passFailedLine(phase, i, n, err) ==
  IF err /= NoErr /\ phase /= "lines" THEN [phase |-> "return", i |-> 0]
  ELSE IF phase = "enter"
  THEN IF i < Len(enterCmds) THEN [phase |-> "enter", i |-> i + 1]
       ELSE [phase |-> "lines", i |-> 1]
  ELSE IF phase = "lines"
  THEN IF i < n THEN [phase |-> "lines", i |-> i + 1]
       ELSE [phase |-> "exit", i |-> 1]
  ELSE IF i < Len(exitCmds) THEN [phase |-> "exit", i |-> i + 1]
       ELSE [phase |-> "return", i |-> 0]

\* Where ApplyConfig goes after the i-th command of a phase ended with err
\* (NoErr too for a line it skipped); n is the number of lines.
applyNext(phase, i, n, err) ==
  IF err /= NoErr THEN [phase |-> "return", i |-> 0]
  ELSE IF phase = "enter"
  THEN IF i < Len(enterCmds) THEN [phase |-> "enter", i |-> i + 1]
       ELSE [phase |-> "lines", i |-> 1]
  ELSE IF phase = "lines"
  THEN IF i < n THEN [phase |-> "lines", i |-> i + 1]
       ELSE [phase |-> "exit", i |-> 1]
  ELSE IF i < Len(exitCmds) THEN [phase |-> "exit", i |-> i + 1]
       ELSE [phase |-> "return", i |-> 0]

\* Connection.ApplyConfig is called: the config is split into lines.
ApplyConfigCall(c, via, configs) ==
  \E ctx \in StepContexts, config \in configs :
    /\ pc = "idle"
    /\ pc' = "ApplyConfig"
    /\ call' = [NoCall EXCEPT !.op = "ApplyConfig", !.via = via, !.c = c,
                              !.ctx = ctx, !.config = config,
                              !.conn0 = conn[c], !.rxq0 = rxq[c], !.t = now]
    /\ loc' = [NoLoc EXCEPT !.phase = "enter", !.i = 1,
                            !.commands = bytesSplit(config, <<"\n">>)]
    /\ ret' = NoRet
    /\ issued' = <<>>
    /\ io' = <<>>
    /\ UNCHANGED <<net, fs, now, response>>

\* ApplyConfig runs cmd with Execute and goes on, or returns its error.
ApplyExec(c, cmd) ==
  \E env \in StepReplies :
    LET r == Execute(c, conn[c], rxq[c], call.ctx, cmd, now, env)
        nx == applyNext(loc.phase, loc.i, Len(loc.commands), r.err)
    IN
    /\ issued' = Append(issued, [c |-> c, cmd |-> cmd, err |-> r.err])
    /\ io' = io \o r.io
    /\ rxq' = [rxq EXCEPT ![c] = r.rxq]
    /\ loc' = [loc EXCEPT !.phase = nx.phase, !.i = nx.i]
    /\ pc' = IF nx.phase = "return" THEN "returned" ELSE pc
    /\ ret' = IF nx.phase = "return" THEN [NoRet EXCEPT !.err = r.err] ELSE ret
    /\ UNCHANGED <<conn, openT, dials, fs, now, response, call>>

\* ApplyConfig enters the modes: enable, then configure.
ApplyEnter(c) ==
  /\ pc = "ApplyConfig" /\ call.c = c /\ loc.phase = "enter"
  /\ ApplyExec(c, enterCmds[loc.i])

\* ApplyConfig takes the next line of the config: trimmed, and run unless empty.
ApplyLine(c) ==
  /\ pc = "ApplyConfig" /\ call.c = c /\ loc.phase = "lines"
  /\ LET cmd == TrimSpace(loc.commands[loc.i]) IN
     IF Len(cmd) = 0
     THEN LET nx == applyNext(loc.phase, loc.i, Len(loc.commands), NoErr) IN
          /\ loc' = [loc EXCEPT !.phase = nx.phase, !.i = nx.i]
          /\ UNCHANGED <<net, fs, now, pc, response, call, ret, issued, io>>
     ELSE ApplyExec(c, cmd)

\* ApplyConfig leaves the modes: exit, then disable.
ApplyExit(c) ==
  /\ pc = "ApplyConfig" /\ call.c = c /\ loc.phase = "exit"
  /\ ApplyExec(c, exitCmds[loc.i])

\* One Connection whose caller connects it and applies configs.
NextApply ==
  \/ Connect("bgp")
  \/ ApplyConfigCall("bgp", "", Configs)
  \/ ApplyEnter("bgp")
  \/ ApplyLine("bgp")
  \/ ApplyExit("bgp")
  \/ Return

SpecApply == Init /\ [][NextApply]_vars

\* ------------------------------------------ Connection: ShowRunningConfig

\* The commands of ShowRunningConfig.
showCmds == <<enable, doWriteTerminal, disable>>

\* Commands run one after the other with Execute, from the k-th on, up to
\* the first that fails: the result of each. q: the unread bytes of the
\* transport; envs[k]: what transport and daemon do during the k-th.
\* executeNext continues after the k-th has returned r.
RECURSIVE executeEach(_, _, _, _, _, _, _, _)
RECURSIVE executeNext(_, _, _, _, _, _, _, _)
executeEach(c, cn, q, ctx, t, cmds, envs, k) ==
  IF k > Len(cmds) THEN <<>>
  ELSE executeNext(Execute(c, cn, q, ctx, cmds[k], t, envs[k]),
                   c, cn, ctx, t, cmds, envs, k)

executeNext(r, c, cn, ctx, t, cmds, envs, k) ==
  IF r.err /= NoErr THEN <<r>>
  ELSE <<r>> \o executeEach(c, cn, r.rxq, ctx, t, cmds, envs, k + 1)

\* ShowRunningConfig that returns the plaintext of the last command it ran.
showResult_lastResponse(c, rs) ==
  [resp |-> IF rs[Len(rs)].err = NoErr THEN rs[Len(rs)].resp ELSE <<>>,
   err |-> rs[Len(rs)].err,
   issued |-> [k \in 1..Len(rs) |-> [c |-> c, cmd |-> showCmds[k], err |-> rs[k].err]],
   io |-> Flatten([k \in 1..Len(rs) |-> rs[k].io]),
   rxq |-> rs[Len(rs)].rxq]

\* What ShowRunningConfig returns when its Executes returned rs: the
\* plaintext of the second if none failed, the error of the last, the
\* Executes made (issued), the transport operations, the bytes left unread.
showResult(c, rs) ==
  [resp |-> IF rs[Len(rs)].err = NoErr THEN rs[2].resp ELSE <<>>,
   err |-> rs[Len(rs)].err,
   issued |-> [k \in 1..Len(rs) |-> [c |-> c, cmd |-> showCmds[k], err |-> rs[k].err]],
   io |-> Flatten([k \in 1..Len(rs) |-> rs[k].io]),
   rxq |-> rs[Len(rs)].rxq]

\* Connection.ShowRunningConfig on connection c: enable, do write terminal,
\* disable, each with Execute, stopping at the first that fails.
ShowRunningConfig(c, cn, q, ctx, t, envs) ==
  showResult(c, executeEach(c, cn, q, ctx, t, showCmds, envs, 1))

\* The running configs a daemon may hold.
DumpConfigs == {<<65>>, <<66>>}

\* A daemon that answers every command with status Success and plaintext P.
Answer(P) == [NoReply EXCEPT !.P = P]
Rejected == [NoReply EXCEPT !.S = 2]

\* What transport and daemon do during the three commands of one
\* ShowRunningConfig that is to return config: all goes well, or one of the
\* three fails (rejected by the daemon, or not written).
ShowReplies(config) ==
  {<<Answer(<<>>), Answer(config), Answer(<<>>)>>,
   <<Rejected, Answer(config), Answer(<<>>)>>,
   <<Answer(<<>>), [NoReply EXCEPT !.wrErr = TRUE], Answer(<<>>)>>,
   <<Answer(<<>>), Answer(config), Rejected>>}

\* ------------------------------------------------------------- Sockets

\* The socket file names of NewSockets, as bytes: bgpd.vty, bfdd.vty,
\* mgmtd.vty, zebra.vty (the run directory is the current one).
socketPath(c) ==
  CASE c = "bgp"   -> <<98, 103, 112, 100, 46, 118, 116, 121>>
    [] c = "bfd"   -> <<98, 102, 100, 100, 46, 118, 116, 121>>
    [] c = "mgmt"  -> <<109, 103, 109, 116, 100, 46, 118, 116, 121>>
    [] c = "zebra" -> <<122, 101, 98, 114, 97, 46, 118, 116, 121>>

\* The Connection each helper of Sockets hands its call to.
route(h) ==
  CASE h = "ExecuteBFD"   -> "mgmt"
    [] h = "ExecuteBGP"   -> "bgp"
    [] h = "ExecuteMgmt"  -> "mgmt"
    [] h = "ExecuteZebra" -> "zebra"
    [] h = "ApplyBGPConfig"  -> "bgp"
    [] h = "ApplyMgmtConfig" -> "mgmt"
    [] h = "ShowRunningConfigBGP"  -> "bgp"
    [] h = "ShowRunningConfigMgmt" -> "mgmt"

ExecuteHelpers == {"ExecuteBFD", "ExecuteBGP", "ExecuteMgmt", "ExecuteZebra"}
ApplyHelpers == {"ApplyBGPConfig", "ApplyMgmtConfig"}
ShowHelpers == {"ShowRunningConfigBGP", "ShowRunningConfigMgmt"}

\* Sockets.Connect that gives up dialing at the first dial that fails.
connectNext_shortCircuit(i, errs) ==
  IF errs /= <<>> THEN [pc |-> "SocketsClose", i |-> 1]
  ELSE IF i < Len(Conns) THEN [pc |-> "SocketsConnect", i |-> i + 1]
  ELSE [pc |-> "returned", i |-> 0]

\* Sockets.Connect that returns the joined error without closing.
connectNext_noClose(i, errs) ==
  IF i < Len(Conns) THEN [pc |-> "SocketsConnect", i |-> i + 1]
  ELSE [pc |-> "returned", i |-> 0]

\* Where Sockets.Connect goes after the i-th dial, errs the failures so far:
\* the next dial, then Close of all if any dial failed.
connectNext(i, errs) ==
  IF i < Len(Conns) THEN [pc |-> "SocketsConnect", i |-> i + 1]
  ELSE IF errs /= <<>> THEN [pc |-> "SocketsClose", i |-> 1]
  ELSE [pc |-> "returned", i |-> 0]

\* errors.Join: nil when nothing failed.
joined(errs) == IF errs = <<>> THEN NoErr ELSE "joined"

\* Sockets.Connect is called. MaxConnects bounds the run: it is not called
\* again once a connection has dialed MaxConnects transports.
SocketsConnectCall ==
  \E ctx \in StepContexts :
    /\ pc = "idle"
    /\ \A c \in ConnSet : dials[c] < MaxConnects
    /\ pc' = "SocketsConnect"
    /\ call' = [NoCall EXCEPT !.op = "Sockets.Connect", !.ctx = ctx, !.t = now]
    /\ loc' = [NoLoc EXCEPT !.i = 1]
    /\ ret' = NoRet
    /\ issued' = <<>>
    /\ io' = <<>>
    /\ UNCHANGED <<net, fs, now, response>>

\* Sockets.Connect dials the next connection of allConnections.
SocketsConnectDial ==
  \E ok \in BOOLEAN :
    LET c == Conns[loc.i]
        errs == IF ok THEN loc.errs ELSE Append(loc.errs, [c |-> c, err |-> ErrDial])
        nx == connectNext(loc.i, errs)
    IN
    /\ pc = "SocketsConnect"
    /\ ok => CanDial(c, call.ctx)
    /\ Dial(c, ok)
    /\ io' = Append(io, IoOp(c, "Dial", <<>>, 0, IF ok THEN 1 ELSE 0))
    /\ loc' = [loc EXCEPT !.i = nx.i, !.errs = errs]
    /\ pc' = nx.pc
    /\ ret' = IF nx.pc = "returned"
              THEN [NoRet EXCEPT !.err = joined(errs), !.errs = errs] ELSE ret
    /\ UNCHANGED <<fs, now, response, call, issued>>

\* Sockets.Close is called.
SocketsCloseCall ==
  /\ pc = "idle"
  /\ pc' = "SocketsClose"
  /\ call' = [NoCall EXCEPT !.op = "Sockets.Close", !.t = now]
  /\ loc' = [NoLoc EXCEPT !.i = 1]
  /\ ret' = NoRet
  /\ issued' = <<>>
  /\ io' = <<>>
  /\ UNCHANGED <<net, fs, now, response>>

\* Sockets.Close, called or run by a failed Sockets.Connect, closes the
\* next connection of allConnections and returns after the last.
SocketsCloseStep ==
  \E closeErr \in BOOLEAN :
    LET c == Conns[loc.i]
        errs == IF closeErr THEN Append(loc.errs, [c |-> c, err |-> ErrClose])
                ELSE loc.errs
        last == loc.i = Len(Conns)
    IN
    /\ pc = "SocketsClose"
    /\ closeErr => conn[c] /= Nil
    /\ CloseConn(c)
    /\ io' = io \o closeOps(c)
    /\ loc' = [loc EXCEPT !.i = IF last THEN 0 ELSE loc.i + 1, !.errs = errs]
    /\ pc' = IF last THEN "returned" ELSE pc
    /\ ret' = IF last THEN [NoRet EXCEPT !.err = joined(errs), !.errs = errs] ELSE ret
    /\ UNCHANGED <<fs, now, response, call, issued>>

\* ExecuteBGP, ExecuteBFD, ExecuteMgmt, ExecuteZebra.
SocketsExecute(h) ==
  \E ctx \in {Background}, env \in StepReplies :
    \E r \in {Execute(route(h), conn[route(h)], rxq[route(h)], ctx, enable, now, env)} :
      /\ pc = "idle"
      /\ pc' = "returned"
      /\ call' = [NoCall EXCEPT !.op = "Execute", !.via = h, !.c = route(h),
                                !.ctx = ctx, !.cmd = enable, !.env = env,
                                !.conn0 = conn[route(h)],
                                !.rxq0 = rxq[route(h)], !.t = now]
      /\ ret' = [NoRet EXCEPT !.resp = r.resp, !.err = r.err, !.sr = r.sr]
      /\ io' = r.io
      /\ issued' = <<[c |-> route(h), cmd |-> enable, err |-> r.err]>>
      /\ rxq' = [rxq EXCEPT ![route(h)] = r.rxq]
      /\ UNCHANGED <<conn, openT, dials, fs, now, loc, response>>

\* ShowRunningConfigBGP, ShowRunningConfigMgmt.
SocketsShow(h) ==
  \E ctx \in {Background}, config \in DumpConfigs :
    \E envs \in ShowReplies(config) :
      \E r \in {ShowRunningConfig(route(h), conn[route(h)], rxq[route(h)], ctx, now, envs)} :
        /\ pc = "idle"
        /\ pc' = "returned"
        /\ call' = [NoCall EXCEPT !.op = "ShowRunningConfig", !.via = h,
                                  !.c = route(h), !.ctx = ctx, !.config = config,
                                  !.conn0 = conn[route(h)],
                                  !.rxq0 = rxq[route(h)], !.t = now]
        /\ ret' = [NoRet EXCEPT !.resp = r.resp, !.err = r.err]
        /\ io' = r.io
        /\ issued' = r.issued
        /\ rxq' = [rxq EXCEPT ![route(h)] = r.rxq]
        /\ UNCHANGED <<conn, openT, dials, fs, now, loc, response>>

\* The configs the helpers ApplyBGPConfig and ApplyMgmtConfig are given.
HelperConfigs == SeqsUpTo(ConfigChars, 1)

\* The four Connections of a Sockets: connect and close of all, and the
\* per-daemon helpers.
NextSockets ==
  \/ SocketsConnectCall
  \/ SocketsConnectDial
  \/ SocketsCloseCall
  \/ SocketsCloseStep
  \/ \E h \in ExecuteHelpers : SocketsExecute(h)
  \/ \E h \in ShowHelpers : SocketsShow(h)
  \/ \E h \in ApplyHelpers : ApplyConfigCall(route(h), h, HelperConfigs)
  \/ \E c \in ConnSet : ApplyEnter(c)
  \/ \E c \in ConnSet : ApplyLine(c)
  \/ \E c \in ConnSet : ApplyExit(c)
  \/ Return

SpecSockets == Init /\ [][NextSockets]_vars

\* ---------------------------------------------------- DumpRunningConfig

\* The running config the daemon of connection c holds during a dump that
\* drew config: it starts with the first three letters of the socket's name,
\* so that no two daemons hold the same.
daemonConfig(c, config) == SubSeq(socketPath(c), 1, 3) \o config

\* The comment line without its line feed.
comment_noNewline(c) == <<33, 32>> \o socketPath(c)

\* The comment line of a connection in the dump: "! <socket path>\n".
comment(c) == <<33, 32>> \o socketPath(c) \o <<10>>

\* The outcomes of os.WriteFile: written, not opened (the file is as it
\* was), or opened, truncated and only the first n bytes written.
WriteOutcomes(data) ==
  {[ok |-> TRUE, opened |-> TRUE, n |-> Len(data)],
   [ok |-> FALSE, opened |-> FALSE, n |-> 0],
   [ok |-> FALSE, opened |-> TRUE, n |-> 0],
   [ok |-> FALSE, opened |-> TRUE, n |-> Len(data) \div 2]}

\* os.WriteFile on the file system f.
writeFile(f, path, data, w) ==
  IF w.opened THEN [f EXCEPT ![path] = SubSeq(data, 1, w.n)] ELSE f

\* os.Rename on the file system f: the destination is replaced in one step;
\* renaming a file to itself changes nothing.
rename(f, from, to) ==
  IF from = to THEN f ELSE [f EXCEPT ![to] = f[from], ![from] = Absent]

\* DumpRunningConfig(ctx, dstFile, mode) is called; the mode is not modelled.
DumpCall ==
  \E config \in DumpConfigs :
    /\ pc = "idle"
    /\ pc' = "DumpShow"
    /\ call' = [NoCall EXCEPT !.op = "DumpRunningConfig", !.config = config,
                              !.dst0 = fs[dstFile], !.t = now]
    /\ loc' = [NoLoc EXCEPT !.i = 1]
    /\ ret' = NoRet
    /\ issued' = <<>>
    /\ io' = <<>>
    /\ UNCHANGED <<net, fs, now, response>>

\* The loop of DumpRunningConfig: ShowRunningConfig on the next connection
\* of allConnections; on failure the dump returns, otherwise the comment and
\* the response go to resultConfig.
DumpShow ==
  /\ pc = "DumpShow"
  /\ \E envs \in ShowReplies(daemonConfig(Conns[loc.i], call.config)) :
       \E r \in {ShowRunningConfig(Conns[loc.i], conn[Conns[loc.i]],
                                   rxq[Conns[loc.i]], call.ctx, now, envs)} :
         /\ io' = io \o r.io
         /\ issued' = issued \o r.issued
         /\ rxq' = [rxq EXCEPT ![Conns[loc.i]] = r.rxq]
         /\ IF r.err /= NoErr
            THEN /\ pc' = "returned"
                 /\ ret' = [NoRet EXCEPT !.resp = r.resp,
                                         !.err = ErrShowRunningConfig,
                                         !.errs = <<[c |-> Conns[loc.i], err |-> r.err]>>]
                 /\ loc' = loc
            ELSE /\ pc' = IF loc.i < Len(Conns) THEN "DumpShow" ELSE "WriteFile"
                 /\ ret' = ret
                 /\ loc' = [loc EXCEPT
                              !.i = IF loc.i < Len(Conns) THEN loc.i + 1 ELSE 0,
                              !.resps = Append(@, r.resp),
                              !.resultConfig = @ \o comment(Conns[loc.i]) \o r.resp]
  /\ UNCHANGED <<conn, openT, dials, fs, now, response, call>>

\* atomicWrite: os.WriteFile of resultConfig to the temporary file.
AtomicWriteFile ==
  \E w \in WriteOutcomes(loc.resultConfig) :
    /\ pc = "WriteFile"
    /\ fs' = writeFile(fs, tmpPath(dstFile), loc.resultConfig, w)
    /\ io' = Append(io, IoOp("fs", "WriteFile", tmpPath(dstFile), 0, w.n))
    /\ pc' = IF w.ok THEN "Rename" ELSE "returned"
    /\ ret' = IF w.ok THEN ret ELSE [NoRet EXCEPT !.err = ErrAtomicWrite]
    /\ UNCHANGED <<net, now, loc, response, call, issued>>

\* atomicWrite: os.Rename of the temporary file to the destination.
AtomicRename ==
  \E ok \in BOOLEAN :
    /\ pc = "Rename"
    /\ fs' = IF ok THEN rename(fs, tmpPath(dstFile), dstFile) ELSE fs
    /\ io' = Append(io, IoOp("fs", "Rename", tmpPath(dstFile), 0, 0))
    /\ pc' = "returned"
    /\ ret' = [NoRet EXCEPT !.err = IF ok THEN NoErr ELSE ErrAtomicWrite]
    /\ UNCHANGED <<net, now, loc, response, call, issued>>

\* A Sockets that is connected, dumps its running config and is closed.
NextDump ==
  \/ SocketsConnectCall
  \/ SocketsConnectDial
  \/ SocketsCloseCall
  \/ SocketsCloseStep
  \/ DumpCall
  \/ DumpShow
  \/ AtomicWriteFile
  \/ AtomicRename
  \/ Return

SpecDump == Init /\ [][NextDump]_vars

\* ----------------------------------------------------- StatusCode.String

\* String with the mnemonic of CompleteFullMatch under CompleteMatch too.
String_pasted(sc) ==
  CASE sc = Success -> "CMD_SUCCESS"
    [] sc = Warning -> "CMD_WARNING"
    [] sc = ErrNoMatch -> "CMD_ERR_NO_MATCH"
    [] sc = ErrAmbiguous -> "CMD_ERR_AMBIGUOUS"
    [] sc = ErrIncomplete -> "CMD_ERR_INCOMPLETE"
    [] sc = ErrExeedArgcMax -> "CMD_ERR_EXEED_ARGC_MAX"
    [] sc = ErrNothingTodo -> "CMD_ERR_NOTHING_TODO"
    [] sc = CompleteFullMatch -> "CMD_COMPLETE_FULL_MATCH"
    [] sc = CompleteMatch -> "CMD_COMPLETE_FULL_MATCH"
    [] sc = CompleteListMatch -> "CMD_COMPLETE_LIST_MATCH"
    [] sc = SuccessDaemon -> "CMD_SUCCESS_DAEMON"
    [] sc = ErrNoFile -> "CMD_ERR_NO_FILE"
    [] sc = Suspend -> "CMD_SUSPEND"
    [] sc = WarningConfigFailed -> "CMD_WARNING_CONFIG_FAILED"
    [] sc = NotMyInstance -> "CMD_NOT_MY_INSTANCE"
    [] sc = NoLevelUp -> "CMD_NO_LEVEL_UP"
    [] sc = ErrNoDaemon -> "CMD_ERR_NO_DAEMON"
    [] OTHER -> "unknown status code"

\* StatusCode.String: the mnemonic of a status code.
String(sc) ==
  CASE sc = Success -> "CMD_SUCCESS"
    [] sc = Warning -> "CMD_WARNING"
    [] sc = ErrNoMatch -> "CMD_ERR_NO_MATCH"
    [] sc = ErrAmbiguous -> "CMD_ERR_AMBIGUOUS"
    [] sc = ErrIncomplete -> "CMD_ERR_INCOMPLETE"
    [] sc = ErrExeedArgcMax -> "CMD_ERR_EXEED_ARGC_MAX"
    [] sc = ErrNothingTodo -> "CMD_ERR_NOTHING_TODO"
    [] sc = CompleteFullMatch -> "CMD_COMPLETE_FULL_MATCH"
    [] sc = CompleteMatch -> "CMD_COMPLETE_MATCH"
    [] sc = CompleteListMatch -> "CMD_COMPLETE_LIST_MATCH"
    [] sc = SuccessDaemon -> "CMD_SUCCESS_DAEMON"
    [] sc = ErrNoFile -> "CMD_ERR_NO_FILE"
    [] sc = Suspend -> "CMD_SUSPEND"
    [] sc = WarningConfigFailed -> "CMD_WARNING_CONFIG_FAILED"
    [] sc = NotMyInstance -> "CMD_NOT_MY_INSTANCE"
    [] sc = NoLevelUp -> "CMD_NO_LEVEL_UP"
    [] sc = ErrNoDaemon -> "CMD_ERR_NO_DAEMON"
    [] OTHER -> "unknown status code"

\* String is called on a status code.
StringCall ==
  \E sc \in 0..MaxStatusCode :
    /\ pc = "idle"
    /\ pc' = "returned"
    /\ call' = [NoCall EXCEPT !.op = "String", !.env.S = sc]
    /\ ret' = [NoRet EXCEPT !.resp = <<String(sc)>>]
    /\ UNCHANGED <<net, fs, now, loc, response, issued, io>>

NextString ==
  \/ StringCall
  \/ Return

SpecString == Init /\ [][NextString]_vars

\* ------------------------------------------------------------ the claims

\* The response the daemon put on the wire in SpecRead.
SentP == call.env.P
SentS == call.env.S

NoZeroRun(P) ==
  ~\E i \in 1..(Len(P) - 2) : P[i] = 0 /\ P[i + 1] = 0 /\ P[i + 2] = 0

EndsInZero(P) == P /= <<>> /\ P[Len(P)] = 0

ReadReturned == call.op = "readResponse" /\ pc = "done"

\* C1 as stated: whatever the chunks, readResponse returns, without error,
\* exactly the plaintext P and the status S of the response P + 0 0 0 + S,
\* for every P without a run of three zero bytes.
C1_RoundTripAnyPayload ==
  (ReadReturned /\ NoZeroRun(SentP))
    => ret.sr = Response(SentP, SentS, NoErr)

\* C1 as amended: the same for every P without a run of three zero bytes
\* that does not end in a zero byte.
C1_RoundTrip ==
  (ReadReturned /\ NoZeroRun(SentP) /\ ~EndsInZero(SentP))
    => ret.sr = Response(SentP, SentS, NoErr)

\* C1's case: a payload with a zero byte in it, read in more than two reads.
C1_Witness ==
  /\ ReadReturned
  /\ SentP = <<0, 65>>
  /\ SentS = 10
  /\ Len(io) > 2
  /\ ret.sr = Response(SentP, SentS, NoErr)

\* The outcome of readResponse: whether it completed, and with what.
SameOutcome(a, b) ==
  /\ (a.err = NoErr) = (b.err = NoErr)
  /\ a.err = NoErr => (a.plainText = b.plainText /\ a.statusCode = b.statusCode)

\* C2: the outcome of readResponse on one response does not depend on how
\* the reads cut it: the run that just returned agrees with every other
\* cutting of the same bytes.
C2_ChunkingIndependent ==
  ReadReturned =>
    \A cu \in Cuts(Encode(SentP, SentS)) :
      SameOutcome(readResponse(Chunks(Encode(SentP, SentS), cu), ErrRead).sr, ret.sr)

ExecuteReturned == call.op = "Execute" /\ pc = "returned"

\* The bytes of the command that reached the transport.
BytesWritten == {i \in 1..Len(io) : io[i].op = "Write" /\ io[i].n > 0}

\* C7: when readResponse has read a complete frame, Execute returns no error
\* exactly when the status byte is 0, 1 or 10, and ErrNotAcceptableStatusCode
\* for any other; either way it returns the plaintext of the frame, which is
\* the daemon's own when the frame came alone and unambiguous.
C7_AcceptedStatusCodes ==
  (ExecuteReturned /\ ret.sr.err = NoErr) =>
    /\ (ret.err = NoErr) = (ret.sr.statusCode \in {0, 1, 10})
    /\ ret.err \in {NoErr, ErrNotAcceptableStatusCode}
    /\ ret.resp = ret.sr.plainText
    /\ (call.rxq0 = <<>> /\ ~EndsInZero(call.env.P))
         => (ret.resp = call.env.P /\ ret.sr.statusCode = call.env.S)

\* C7's case: a frame with status SuccessDaemon is accepted with its plaintext.
C7_Witness ==
  /\ ExecuteReturned
  /\ call.env.P = <<65>>
  /\ call.env.S = 10
  /\ ret.sr = Response(<<65>>, 10, NoErr)
  /\ ret.err = NoErr
  /\ ret.resp = <<65>>

\* C8: Execute on a Connection without transport returns ErrConnNotEstab and
\* performs no transport operation.
C8_NotEstablishedNoIO ==
  (ExecuteReturned /\ call.conn0 = Nil) =>
    (ret.err = ErrConnNotEstab /\ io = <<>> /\ ret.resp = <<>>)

\* C8's case: Execute on a Connection that was connected and then closed.
C8_Witness ==
  /\ ExecuteReturned
  /\ call.conn0 = Nil
  /\ dials[call.c] > 0
  /\ ret.err = ErrConnNotEstab

\* C10 as stated: Execute with a context that is already done (cancelled, or
\* past its deadline) on a connected Connection returns an error and writes
\* no byte of the command.
C10_CancelledPreventsCall ==
  (ExecuteReturned /\ call.conn0 /= Nil /\ ctxDone(call.ctx, call.t)) =>
    (ret.err /= NoErr /\ BytesWritten = {})

\* C10 as amended: Execute with a context whose deadline has already passed
\* on a connected Connection returns an error and writes no byte of the
\* command.
C10_PassedDeadlinePreventsCall ==
  (ExecuteReturned /\ call.conn0 /= Nil
     /\ call.ctx.hasDeadline /\ call.ctx.deadline <= call.t) =>
    (ret.err /= NoErr /\ BytesWritten = {})

\* C10's case: the deadline passed, the write was tried and wrote nothing.
C10_Witness ==
  /\ ExecuteReturned
  /\ call.conn0 /= Nil
  /\ call.ctx.hasDeadline /\ call.ctx.deadline <= call.t
  /\ ~call.ctx.cancelled
  /\ ret.err = ErrWrite
  /\ Len(io) = 2 /\ io[2].op = "Write" /\ io[2].n = 0

\* The commands of the Executes made so far.
IssuedCmds == [i \in 1..Len(issued) |-> issued[i].cmd]

\* The commands written to the transport so far.
WrittenCmds ==
  LET w == SelectSeq(io, LAMBDA o : o.op = "Write") IN [i \in 1..Len(w) |-> w[i].cmd]

IsPrefix(s, t) == Len(s) <= Len(t) /\ s = SubSeq(t, 1, Len(s))

RECURSIVE SortedSeq(_)
SortedSeq(S) ==
  IF S = {} THEN <<>>
  ELSE LET m == CHOOSE x \in S : \A y \in S : x <= y IN <<m>> \o SortedSeq(S \ {m})

\* The lines of a config: what lies between its newlines.
LineBreaks(config) ==
  SortedSeq({0, Len(config) + 1} \cup {i \in 1..Len(config) : config[i] = "\n"})

RawLines(config) ==
  LET b == LineBreaks(config) IN
  [k \in 1..(Len(b) - 1) |-> SubSeq(config, b[k] + 1, b[k + 1] - 1)]

\* A line without the white space around it.
Trimmed(line) ==
  LET ink == {j \in 1..Len(line) : line[j] \notin {" ", "\t", "\r"}} IN
  IF ink = {} THEN <<>>
  ELSE SubSeq(line, CHOOSE x \in ink : \A y \in ink : x <= y,
                    CHOOSE x \in ink : \A y \in ink : x >= y)

\* The commands ApplyConfig is to send for a config.
ExpectedCmds(config) ==
  LET raw == RawLines(config)
      trimmed == [k \in 1..Len(raw) |-> Trimmed(raw[k])]
  IN <<enable, configure>> \o SelectSeq(trimmed, LAMBDA l : l /= <<>>) \o <<exit, disable>>

\* C5: in ApplyConfig no command follows a command that failed: a failed
\* command is the last one made, and ApplyConfig has returned its error.
C5_StopsAtFirstFailure ==
  call.op = "ApplyConfig" =>
    /\ \A i \in 1..(Len(issued) - 1) : issued[i].err = NoErr
    /\ (issued /= <<>> /\ issued[Len(issued)].err /= NoErr)
         => (pc = "returned" /\ ret.err = issued[Len(issued)].err)

\* C5's case: the first of two config lines failed, and nothing was sent
\* after it.
C5_Witness ==
  /\ call.op = "ApplyConfig" /\ pc = "returned"
  /\ call.config = <<"a", "\n", "a", "a">>
  /\ IssuedCmds = <<enable, configure, <<"a">>>>
  /\ issued[3].err = ErrNotAcceptableStatusCode
  /\ ret.err = ErrNotAcceptableStatusCode
  /\ WrittenCmds = IssuedCmds

\* C6: ApplyConfig sends enable, configure, the trimmed non-empty lines of
\* the config in their order, exit and disable: at every point what it has
\* sent is a beginning of that sequence, when it returns without error it
\* has sent all of it, and it never sends an empty command.
C6_CommandSequence ==
  call.op = "ApplyConfig" =>
    /\ IsPrefix(IssuedCmds, ExpectedCmds(call.config))
    /\ \A i \in 1..Len(issued) : issued[i].cmd /= <<>>
    /\ (pc = "returned" /\ ret.err = NoErr)
         => (IssuedCmds = ExpectedCmds(call.config) /\ WrittenCmds = IssuedCmds)

\* C6's case: a config of two lines with a blank line between them, applied
\* without error.
C6_Witness ==
  /\ call.op = "ApplyConfig" /\ pc = "returned" /\ ret.err = NoErr
  /\ call.config = <<"a", "\n", "\n", "a">>
  /\ IssuedCmds = <<enable, configure, <<"a">>, <<"a">>, exit, disable>>
  /\ WrittenCmds = IssuedCmds

SocketsConnectReturned == call.op = "Sockets.Connect" /\ pc = "returned"

\* The connections closed during the current call.
ClosedInCall == {io[i].c : i \in {j \in 1..Len(io) : io[j].op = "Close"}}

\* C3: when Sockets.Connect has returned an error, all four Connections are
\* without transport, those whose dial succeeded included; when it has
\* returned nil, all four have one. It never returns with some connected and
\* some not.
C3_ConnectAllOrNone ==
  SocketsConnectReturned =>
    /\ ret.err /= NoErr => \A c \in ConnSet : conn[c] = Nil
    /\ ret.err = NoErr => \A c \in ConnSet : conn[c] /= Nil
    /\ (ret.err = NoErr) = (ret.errs = <<>>)

\* C3's case: only the last dial, zebra's, failed; the three transports that
\* were dialed have been closed again and the error is returned.
C3_Witness ==
  /\ SocketsConnectReturned
  /\ ret.err /= NoErr
  /\ ret.errs = <<[c |-> "zebra", err |-> ErrDial]>>
  /\ ClosedInCall = {"bgp", "bfd", "mgmt"}
  /\ \A c \in ConnSet : conn[c] = Nil

\* The daemon each helper of Sockets is named for.
Named(h) ==
  CASE h \in {"ExecuteBGP", "ApplyBGPConfig", "ShowRunningConfigBGP"} -> "bgp"
    [] h = "ExecuteBFD" -> "bfd"
    [] h \in {"ExecuteMgmt", "ApplyMgmtConfig", "ShowRunningConfigMgmt"} -> "mgmt"
    [] h = "ExecuteZebra" -> "zebra"

\* C9: a helper of Sockets sends its commands on the Connection of the
\* daemon it is named for and on no other: every Execute it makes and every
\* transport operation of the call is on that Connection.
C9_HelperUsesNamedConnection ==
  call.via /= "" =>
    /\ \A i \in 1..Len(issued) : issued[i].c = Named(call.via)
    /\ \A i \in 1..Len(io) : io[i].c = Named(call.via)

\* The dump DumpRunningConfig is to write in a dump that drew config: for
\* bgp, bfd, mgmt, zebra in this order, "! <socket path>\n" and the running
\* config of the daemon.
RECURSIVE MergedDump(_, _)
MergedDump(cs, config) ==
  IF cs = <<>> THEN <<>>
  ELSE <<33, 32>> \o socketPath(Head(cs)) \o <<10>>
         \o daemonConfig(Head(cs), config) \o MergedDump(Tail(cs), config)

InDump == call.op = "DumpRunningConfig"

\* The file operations of the current call.
FileOps == {i \in 1..Len(io) : io[i].c = "fs"}

\* C4: at every point during and after DumpRunningConfig the destination
\* file holds what it held before the call or the complete merged dump of
\* the four daemons; when the call has returned an error the destination is
\* as before the call; after a failed daemon query no file operation was
\* made.
C4_DestinationOldOrComplete ==
  InDump =>
    /\ \/ fs[dstFile] = call.dst0
       \/ fs[dstFile] = MergedDump(Conns, call.config)
    /\ (pc = "returned" /\ ret.err /= NoErr) => fs[dstFile] = call.dst0
    /\ (pc = "returned" /\ ret.err = NoErr)
         => fs[dstFile] = MergedDump(Conns, call.config)
    /\ ret.err = ErrShowRunningConfig => FileOps = {}

\* C4's case: the destination holds an earlier, different dump, and the
\* write of the temporary file fails half way.
C4_Witness ==
  /\ InDump
  /\ pc = "returned"
  /\ ret.err = ErrAtomicWrite
  /\ call.dst0 = MergedDump(Conns, <<65>>)
  /\ call.config = <<66>>
  /\ fs[tmpPath(dstFile)] /= Absent
  /\ fs[tmpPath(dstFile)] /= <<>>
  /\ fs[tmpPath(dstFile)] /= MergedDump(Conns, <<66>>)
  /\ fs[dstFile] = call.dst0

CloseReturned == call.op = "Close" /\ pc = "returned"
ConnectReturned == call.op = "Connect" /\ pc = "returned"

\* C11: when Close has returned, the Connection has no transport, whether
\* or not closing the transport failed, and the transport it held is no
\* longer open; Close on a Connection without transport returns no error and
\* performs no transport operation, otherwise it performs exactly the one
\* close; a Connect that has succeeded, after a Close or not, has installed a
\* transport that is open and was never held before.
C11_CloseClears ==
  /\ CloseReturned =>
       /\ conn[call.c] = Nil
       /\ <<call.c, call.conn0>> \notin openT
       /\ call.conn0 = Nil => (ret.err = NoErr /\ io = <<>>)
       /\ call.conn0 /= Nil =>
            (io = <<IoOp(call.c, "Close", <<>>, 0, 0)>> /\ ret.err \in {NoErr, ErrClose})
  /\ (ConnectReturned /\ ret.err = NoErr) =>
       /\ conn[call.c] /= Nil
       /\ conn[call.c] /= call.conn0
       /\ conn[call.c] = dials[call.c]
       /\ <<call.c, conn[call.c]>> \in openT

\* C11's case: the Connection was connected, closed, and connected again;
\* closing its second transport fails, and it is without transport all the
\* same.
C11_Witness ==
  /\ CloseReturned
  /\ ret.err = ErrClose
  /\ call.conn0 = 2
  /\ openT = {}
  /\ conn[call.c] = Nil

ShowReturned == call.op = "ShowRunningConfig" /\ pc = "returned"

\* C12: the commands ShowRunningConfig runs, and those it writes to the
\* transport, are the first one, two or three of enable, do write terminal,
\* disable, in this order; none follows a command that failed, and the error
\* of the last one run is what is returned; when all three succeeded the
\* bytes returned are the plaintext the daemon answered do write terminal
\* with.
C12_ShowSequence ==
  ShowReturned =>
    /\ Len(issued) >= 1
    /\ IsPrefix(IssuedCmds, <<enable, doWriteTerminal, disable>>)
    /\ IsPrefix(WrittenCmds, <<enable, doWriteTerminal, disable>>)
    /\ \A i \in 1..(Len(issued) - 1) : issued[i].err = NoErr
    /\ ret.err = issued[Len(issued)].err
    /\ ret.err = NoErr =>
         /\ WrittenCmds = <<enable, doWriteTerminal, disable>>
         /\ ret.resp = call.config

\* C12's case: on a connected Connection enable succeeds, do write terminal
\* fails, and disable is not sent.
C12_Witness ==
  /\ ShowReturned
  /\ call.conn0 /= Nil
  /\ ret.err /= NoErr
  /\ IssuedCmds = <<enable, doWriteTerminal>>
  /\ WrittenCmds = <<enable, doWriteTerminal>>
  /\ issued[1].err = NoErr

DumpSucceeded == InDump /\ pc = "returned" /\ ret.err = NoErr

\* The line "! <socket path>\n" and the plaintext the daemon of c answered
\* do write terminal with.
Section(c) == <<33, 32>> \o socketPath(c) \o <<10>> \o daemonConfig(c, call.config)

\* C13: when DumpRunningConfig has returned nil, the Executes it made were
\* the three of ShowRunningConfig on bgp, then on bfd, then on mgmt, then on
\* zebra, and the destination file holds exactly the sections of bgp, bfd,
\* mgmt and zebra in this order, written through the temporary file and one
\* rename.
C13_DumpContent ==
  DumpSucceeded =>
    /\ [i \in 1..Len(issued) |-> issued[i].c]
         = <<"bgp", "bgp", "bgp", "bfd", "bfd", "bfd",
             "mgmt", "mgmt", "mgmt", "zebra", "zebra", "zebra">>
    /\ fs[dstFile] = Section("bgp") \o Section("bfd") \o Section("mgmt") \o Section("zebra")
    /\ [i \in 1..Len(SelectSeq(io, LAMBDA o : o.c = "fs")) |->
          SelectSeq(io, LAMBDA o : o.c = "fs")[i].op] = <<"WriteFile", "Rename">>

\* C13's case: a dump that succeeds and replaces an earlier, different dump.
C13_Witness ==
  /\ DumpSucceeded
  /\ call.config = <<66>>
  /\ call.dst0 /= Absent
  /\ call.dst0 /= fs[dstFile]
  /\ Len(fs[dstFile]) = 4 * 3 + 8 + 8 + 9 + 9 + 4 * 4

StringReturned == call.op = "String" /\ pc = "returned"

\* The mnemonics of frr lib/command.h for the status codes 0..16.
Mnemonics ==
  <<"CMD_SUCCESS",
    "CMD_WARNING",
    "CMD_ERR_NO_MATCH",
    "CMD_ERR_AMBIGUOUS",
    "CMD_ERR_INCOMPLETE",
    "CMD_ERR_EXEED_ARGC_MAX",
    "CMD_ERR_NOTHING_TODO",
    "CMD_COMPLETE_FULL_MATCH",
    "CMD_COMPLETE_MATCH",
    "CMD_COMPLETE_LIST_MATCH",
    "CMD_SUCCESS_DAEMON",
    "CMD_ERR_NO_FILE",
    "CMD_SUSPEND",
    "CMD_WARNING_CONFIG_FAILED",
    "CMD_NOT_MY_INSTANCE",
    "CMD_NO_LEVEL_UP",
    "CMD_ERR_NO_DAEMON">>

\* C14: String returns, for each of the 17 status codes 0..16, its mnemonic
\* in declaration order, CMD_SUCCESS for 0 through CMD_ERR_NO_DAEMON for 16,
\* all of them different; for every other byte it returns one and the same
\* string, which is not empty and is none of the mnemonics.
C14_StatusMnemonics ==
  /\ Len(Mnemonics) = 17
  /\ \A i, j \in 1..Len(Mnemonics) : Mnemonics[i] = Mnemonics[j] => i = j
  /\ StringReturned =>
       /\ call.env.S <= 16 => ret.resp = <<Mnemonics[call.env.S + 1]>>
       /\ call.env.S > 16 =>
            /\ ret.resp = <<"unknown status code">>
            /\ ret.resp[1] /= ""
            /\ \A i \in 1..Len(Mnemonics) : ret.resp[1] /= Mnemonics[i]

\* C14's case: the last byte value, far outside the defined codes.
C14_Witness ==
  /\ StringReturned
  /\ call.env.S = 255
  /\ ret.resp = <<"unknown status code">>

\* The dials of the current call, and the connection of each entry of a log.
DialsInCall == SelectSeq(io, LAMBDA o : o.op = "Dial")
ConnOf(log) == [i \in 1..Len(log) |-> log[i].c]

\* C15: when Sockets.Connect has returned, it has dialed bgp, bfd, mgmt and
\* zebra, in this order, whatever failed on the way, and before any close;
\* the failures it returns are those of all the dials that failed, in dial
\* order, followed by those of the closes that failed, each of a connection
\* closed in this call.
C15_AllDialedAllReported ==
  SocketsConnectReturned =>
    /\ ConnOf(DialsInCall) = <<"bgp", "bfd", "mgmt", "zebra">>
    /\ \A i, j \in 1..Len(io) : (io[i].op = "Dial" /\ io[j].op = "Close") => i < j
    /\ ConnOf(SelectSeq(ret.errs, LAMBDA e : e.err = ErrDial))
         = ConnOf(SelectSeq(DialsInCall, LAMBDA o : o.n = 0))
    /\ ret.errs = SelectSeq(ret.errs, LAMBDA e : e.err = ErrDial)
                    \o SelectSeq(ret.errs, LAMBDA e : e.err = ErrClose)
    /\ \A i \in 1..Len(ret.errs) :
         ret.errs[i].err = ErrClose => ret.errs[i].c \in ClosedInCall

\* C15's case: the first dial fails, the next two succeed, the last fails
\* again, and closing mgmt fails: all three failures are returned.
C15_Witness ==
  /\ SocketsConnectReturned
  /\ ret.errs = <<[c |-> "bgp", err |-> ErrDial], [c |-> "zebra", err |-> ErrDial],
                  [c |-> "mgmt", err |-> ErrClose]>>
  /\ ClosedInCall = {"bfd", "mgmt"}

\* The places in io of the operations op of the current call.
OpsAt(op) == {i \in 1..Len(io) : io[i].op = op}

\* C16: an Execute on a connected Connection that has returned set the
\* deadline of the transport once, as its first transport operation, to the
\* deadline of the context if it has one and to the time of the call plus
\* one second otherwise; the write and every read came after it, with no
\* other operation than reads after the write, and found that same deadline
\* in force.
C16_DeadlineSetOnce ==
  (ExecuteReturned /\ call.conn0 /= Nil) =>
    /\ OpsAt("SetDeadline") = {1}
    /\ io[1].deadline = IF call.ctx.hasDeadline THEN call.ctx.deadline ELSE call.t + 1
    /\ OpsAt("Write") \subseteq {2}
    /\ \A i \in 3..Len(io) : io[i].op = "Read"
    /\ OpsAt("Read") /= {} => OpsAt("Write") = {2}
    /\ \A i \in 2..Len(io) : io[i].deadline = io[1].deadline

\* C16's case: a context with a deadline of its own, and a response that
\* takes several reads.
C16_Witness ==
  /\ ExecuteReturned
  /\ call.conn0 /= Nil
  /\ call.ctx.hasDeadline
  /\ call.ctx.deadline = 2
  /\ call.t = 1
  /\ ret.err = NoErr
  /\ Cardinality(OpsAt("Read")) >= 3
  /\ \A i \in OpsAt("Read") : io[i].deadline = 2

\* readResponse of the Execute that has returned ended on a failed read.
ReadFailedInExecute == ExecuteReturned /\ ret.sr.err \notin {NoErr, "none"}

\* The bytes the transport delivered to that Execute: those left unread
\* before it and those of the response that arrived.
Received ==
  call.rxq0 \o SubSeq(Encode(call.env.P, call.env.S), 1,
                      Len(Encode(call.env.P, call.env.S)) - call.env.lost)

\* C17: when a read fails before readResponse has detected a complete
\* frame, that read is the last transport operation of the Execute, Execute
\* returns the error of the read, never that of a rejected status code,
\* together with exactly the bytes received, and the Connection holds the
\* transport it held, still open.
C17_ReadErrorReturnsReceived ==
  ReadFailedInExecute =>
    /\ ret.err = ErrRead
    /\ ret.err = ret.sr.err
    /\ ret.resp = Received
    /\ io[Len(io)].op = "Read"
    /\ conn[call.c] = call.conn0
    /\ call.conn0 /= Nil
    /\ <<call.c, call.conn0>> \in openT

\* C17's case: the response breaks off before its status byte, which would
\* have been rejected; the letter and the marker are returned with the
\* error of the read.
C17_Witness ==
  /\ ReadFailedInExecute
  /\ call.rxq0 = <<>>
  /\ call.env.P = <<65>>
  /\ call.env.S = 2
  /\ call.env.lost = 1
  /\ ret.resp = <<65, 0, 0, 0>>
  /\ ret.err = ErrRead
  /\ conn[call.c] /= Nil

\* C18: every transport that is open is the one its Connection holds: no
\* Connection has two open transports, and none is open that no Connection
\* refers to, whatever Connects and Closes were made.
C18_NoOrphanTransport ==
  \A t \in openT : conn[t[1]] = t[2]

\* The daemon answered the Execute that has returned with one whole frame,
\* on a transport with nothing unread, and no read failed.
FrameAnswered ==
  /\ ExecuteReturned
  /\ call.conn0 /= Nil
  /\ ret.sr.err = NoErr
  /\ call.env.lost = 0
  /\ call.rxq0 = <<>>

\* C19 as stated: when an Execute returns without a transport error, every
\* byte of the frame the daemon answered it with has been consumed: nothing
\* is left unread for the next Execute.
C19_NoByteLeftOver ==
  FrameAnswered => rxq[call.c] = <<>>

\* C19 as amended: the same for a plaintext without a run of three zero
\* bytes that does not end in a zero byte; what Execute returns is then the
\* plaintext and the status of that frame.
C19_FrameConsumed ==
  (FrameAnswered /\ NoZeroRun(call.env.P) /\ ~EndsInZero(call.env.P)) =>
    /\ rxq[call.c] = <<>>
    /\ ret.resp = call.env.P
    /\ ret.sr.statusCode = call.env.S

\* C19's case: a frame with a rejected status that arrives byte by byte on
\* a transport the Connection dialed: the five reads consume all of it.
C19_Witness ==
  /\ FrameAnswered
  /\ call.env.P = <<65>>
  /\ call.env.S = 16
  /\ Cardinality(OpsAt("Read")) = 5
  /\ ret.err = ErrNotAcceptableStatusCode
  /\ rxq[call.c] = <<>>

\* C20: when readResponse has returned without error, its buffer holds at
\* least 4 bytes, the three before the last are zero and no run of three
\* zero bytes starts earlier, the plaintext returned is the buffer without
\* its last 4 bytes and has no run of three zero bytes, and the status is
\* the last byte.
C20_TrailerWellFormed ==
  (ReadReturned /\ ret.sr.err = NoErr) =>
    /\ Len(response) >= 4
    /\ \A k \in 1..3 : response[Len(response) - k] = 0
    /\ ~\E i \in 1..(Len(response) - 4) :
          response[i] = 0 /\ response[i + 1] = 0 /\ response[i + 2] = 0
    /\ ret.sr.plainText = SubSeq(response, 1, Len(response) - 4)
    /\ ret.sr.statusCode = response[Len(response)]
    /\ NoZeroRun(ret.sr.plainText)

\* C20's case: the daemon's plaintext is three zero bytes; readResponse
\* returns when the buffer holds just 4 bytes, with an empty plaintext.
C20_Witness ==
  /\ ReadReturned
  /\ ret.sr.err = NoErr
  /\ SentP = <<0, 0, 0>>
  /\ response = <<0, 0, 0, 0>>
  /\ ret.sr.plainText = <<>>
  /\ rxq["bgp"] /= <<>>

====
